---- MODULE Spec2Model ----
(***************************************************************************)
(* Triple-redundant digit storage of pkeffect/numbers: the Canonical       *)
(* Source (FileSource), the Chunk Store (SQLiteSource), the Packed Store   *)
(* (BinarySource) and the Cache Manager (MathConstantManager) that reads   *)
(* through them and builds the two derived stores.                         *)
(*                                                                         *)
(* Strings are sequences of one-character strings.  A call that raises is  *)
(* the record Raise(exception name); a call that returns is Ok(value).     *)
(***************************************************************************)
EXTENDS Integers, Sequences, FiniteSets, TLC

VARIABLES
    file,           \* raw text of the canonical file (immutable once chosen)
    chunk_size,     \* StorageConfig.chunk_size
    chunks,         \* rows of table math_chunks
    binary,         \* bytes of the packed file (<<>>: the file does not exist)
    request_count,  \* MathConstantManager.request_count
    build,          \* position of a running build_caches loop
    last,           \* the last call made, its arguments and its outcome
    registry,       \* MultiConstantManager: its managers and a running bulk build
    tasks,          \* background build tasks added by the build-cache endpoint
    search          \* position of a running search_sequence loop

vars ==
    <<file, chunk_size, chunks, binary, request_count, build, last, registry,
      tasks, search>>

----------------------------------------------------------------------------
(* Bounds of the model *)

MaxFileLen == 3      \* longest canonical file, in characters
MaxFormat == 1       \* most formatting characters in a canonical file
MaxRequests == 3     \* get_digits calls counted before the model stops calling
MaxStart == 1        \* start positions 0..MaxStart in direct store_chunk calls
MaxDigits == 1       \* longest digit string in direct store_chunk calls
MaxTampered == 1     \* chunks whose digits may be damaged at the same time
MaxPackedDigits == 3 \* longest digit string in direct packed store_chunk calls

(* StorageConfig.verify_every, scaled down from its default of 100 *)
VerifyEvery == 3

(* search_chunk_size of search_sequence, scaled down from 100000 *)
SearchChunkSize == 2

MaxResults == 2      \* largest max_results of a search_sequence call
MaxPadding == 11     \* most newlines after the digits of a padded canonical file

----------------------------------------------------------------------------
(* Characters and Python string helpers *)

DigitChars == <<"0", "1", "2", "3", "4", "5", "6", "7", "8", "9">>

IsDigitChar(c) == \E n \in 1..10 : DigitChars[n] = c

\* int(c) for a digit character
DigitVal(c) == (CHOOSE n \in 1..10 : DigitChars[n] = c) - 1

\* the first digits of pi, the digit stream of the modelled canonical files
ConstantDigits == <<"3", "1", "4", "1", "5", "9", "2", "6">>

\* the digits of direct store_chunk calls and of damaged chunks
Digits == {"1", "4"}

\* the chunk ids of direct store_chunk calls
ChunkIds == {0, 1}

\* the configured values of chunk_size: an even and an odd one
ChunkSizes == {2, 3}

\* the characters str.replace strips in the manager
Formatting == {".", " ", "\n", "\r"}

\* the formatting characters that occur in the modelled files
FileFormatting == {".", "\n"}

Min(a, b) == IF a < b THEN a ELSE b
Max(a, b) == IF a > b THEN a ELSE b

\* s[:n] for any integer n
Take(s, n) ==
    IF n >= 0 THEN SubSeq(s, 1, Min(n, Len(s)))
    ELSE SubSeq(s, 1, Max(Len(s) + n, 0))

\* s[a:b] for 0 <= a
Slice(s, a, b) == SubSeq(s, a + 1, Min(b, Len(s)))

\* str.isdigit(): non-empty and every character a digit
IsDigitString(s) == Len(s) > 0 /\ \A i \in 1..Len(s) : IsDigitChar(s[i])

RECURSIVE Clean(_)
\* raw.replace('.', '').replace(' ', '').replace('\n', '').replace('\r', '')
Clean(s) ==
    IF s = <<>> THEN <<>>
    ELSE IF Head(s) \in Formatting THEN Clean(Tail(s))
    ELSE <<Head(s)>> \o Clean(Tail(s))

Ok(v) == [error |-> "none", value |-> v]
Raise(e) == [error |-> e, value |-> <<>>]
IsOk(r) == r.error = "none"

\* all sequences over S of length lo..hi
SeqsOf(S, lo, hi) == UNION {[1..n -> S] : n \in lo..hi}

RECURSIVE Md5(_)
\* hashlib.md5(digits.encode()).hexdigest(): free of collisions on the short
\* strings of the model, hence an injective encoding of the string
Md5(s) == IF s = <<>> THEN 0 ELSE (DigitVal(Head(s)) + 1) + 11 * Md5(Tail(s))

----------------------------------------------------------------------------
(* Chunk Store: SQLiteSource *)

\* the row store_chunk writes
NewRow(chunk_id, start_pos, digits) ==
    [chunk_id |-> chunk_id,
     start_position |-> start_pos,
     end_position |-> start_pos + Len(digits),
     digits |-> digits,
     checksum |-> Md5(digits)]

\* INSERT without the REPLACE: an existing row of the same id stays
InsertKeep(rows, chunk_id, start_pos, digits) ==
    rows \cup {NewRow(chunk_id, start_pos, digits)}

\* INSERT OR REPLACE INTO math_chunks, chunk_id being the primary key
InsertOrReplace(rows, chunk_id, start_pos, digits) ==
    {r \in rows : r.chunk_id # chunk_id} \cup {NewRow(chunk_id, start_pos, digits)}

\* ORDER BY start_position (ties: the index order, then the row id)
RowBefore(a, b) ==
    \/ a.start_position < b.start_position
    \/ a.start_position = b.start_position /\ a.end_position < b.end_position
    \/ a.start_position = b.start_position /\ a.end_position = b.end_position
       /\ a.chunk_id <= b.chunk_id

RECURSIVE OrderRows(_)
OrderRows(rows) ==
    IF rows = {} THEN <<>>
    ELSE LET first == CHOOSE r \in rows : \A o \in rows : RowBefore(r, o)
         IN <<first>> \o OrderRows(rows \ {first})

\* WHERE start_position < end AND end_position > start
SelectRows(rows, start, end) ==
    {r \in rows : r.start_position < end /\ r.end_position > start}

\* the part of row r that lies in [start, end)
OverlapOf(r, start, end) ==
    LET overlap_start == Max(start, r.start_position)
        overlap_end == Min(end, r.end_position)
        chunk_offset == overlap_start - r.start_position
        chunk_length == overlap_end - overlap_start
    IN IF overlap_start < overlap_end
       THEN Slice(r.digits, chunk_offset, chunk_offset + chunk_length)
       ELSE <<>>

RECURSIVE ConcatOverlaps(_, _, _)
ConcatOverlaps(rs, start, end) ==
    IF rs = <<>> THEN <<>>
    ELSE OverlapOf(Head(rs), start, end) \o ConcatOverlaps(Tail(rs), start, end)

\* a loop that verifies the checksum of the first selected row only
ScanRowsFirstOnly(rs, start, end, acc) ==
    IF rs # <<>> /\ Md5(Head(rs).digits) # Head(rs).checksum
    THEN Raise("CorruptionError")
    ELSE Ok(acc \o ConcatOverlaps(rs, start, end))

RECURSIVE ScanRows(_, _, _, _)
\* the loop of get over the selected rows: verify the row, then take its overlap
ScanRows(rs, start, end, acc) ==
    IF rs = <<>> THEN Ok(acc)
    ELSE IF Md5(Head(rs).digits) # Head(rs).checksum THEN Raise("CorruptionError")
    ELSE ScanRows(Tail(rs), start, end, acc \o OverlapOf(Head(rs), start, end))

\* SQLiteSource.get(start, length)
SQLiteGet(rows, start, length) ==
    LET end == start + length
        sel == SelectRows(rows, start, end)
        scanned == ScanRows(OrderRows(sel), start, end, <<>>)
    IN IF sel = {} THEN Raise("ValueError")
       ELSE IF ~IsOk(scanned) THEN scanned
       ELSE IF Len(scanned.value) # length THEN Raise("ValueError")
       ELSE scanned

\* SQLiteSource.has_data()
SQLiteHasData(rows) == Cardinality(rows) > 0

----------------------------------------------------------------------------
(* Packed Store: BinarySource *)

RECURSIVE PackDigits(_)
\* two digits per byte, the high nibble first; a last single digit is padded with 0
PackDigits(digits) ==
    IF digits = <<>> THEN <<>>
    ELSE IF Len(digits) = 1 THEN <<DigitVal(digits[1]) * 16>>
    ELSE <<DigitVal(digits[1]) * 16 + DigitVal(digits[2])>>
         \o PackDigits(SubSeq(digits, 3, Len(digits)))

\* a write in append mode: the data goes to the end of the file
WriteAppend(bytes, pos, data) == bytes \o data

\* f.seek(pos); f.write(data): bytes between the old end and pos read as 0
WriteAt(bytes, pos, data) ==
    [i \in 1..Max(Len(bytes), pos + Len(data)) |->
        IF i > pos /\ i <= pos + Len(data) THEN data[i - pos]
        ELSE IF i <= Len(bytes) THEN bytes[i]
        ELSE 0]

\* a store_chunk that writes one more byte than the packed digits need
BinaryStoreChunkExtraByte(bytes, start_pos, digits) ==
    IF ~IsDigitString(digits)
    THEN [res |-> Raise("ValueError"), bytes |-> bytes]
    ELSE [res |-> Ok(<<>>),
          bytes |-> WriteAt(bytes, start_pos \div 2, PackDigits(digits) \o <<0>>)]

\* BinarySource.store_chunk(start_pos, digits): the outcome and the file after it
BinaryStoreChunk(bytes, start_pos, digits) ==
    IF ~IsDigitString(digits)
    THEN [res |-> Raise("ValueError"), bytes |-> bytes]
    ELSE [res |-> Ok(<<>>),
          bytes |-> WriteAt(bytes, start_pos \div 2, PackDigits(digits))]

\* str(n) for a nibble 0..15
StrNibble(n) ==
    IF n <= 9 THEN <<DigitChars[n + 1]>> ELSE <<"1", DigitChars[n - 10 + 1]>>

RECURSIVE UnpackBytes(_)
\* digits += str(byte_val >> 4) + str(byte_val & 0x0F)
UnpackBytes(bytes) ==
    IF bytes = <<>> THEN <<>>
    ELSE StrNibble(Head(bytes) \div 16) \o StrNibble(Head(bytes) % 16)
         \o UnpackBytes(Tail(bytes))

\* os.path.exists(binary_path): the file exists once a chunk was written
BinaryExists(bytes) == Len(bytes) > 0

\* a get that slices the unpacked digits from their first character, whatever
\* the parity of start
BinaryGetNoOffset(bytes, start, length) ==
    LET start_byte == start \div 2
        end_byte == (start + length + 1) \div 2
        binary_data == Slice(bytes, start_byte, end_byte)
        result == Slice(UnpackBytes(binary_data), 0, length)
    IN IF ~BinaryExists(bytes) THEN Raise("FileNotFoundError")
       ELSE IF start < 0 THEN Raise("ValueError")
       ELSE IF length < 1 THEN Raise("ValueError")
       ELSE IF binary_data = <<>> THEN Raise("StorageError")
       ELSE IF Len(result) # length THEN Raise("StorageError")
       ELSE Ok(result)

\* BinarySource.get(start, length)
BinaryGet(bytes, start, length) ==
    LET start_byte == start \div 2
        end_byte == (start + length + 1) \div 2
        binary_data == Slice(bytes, start_byte, end_byte)
        offset == start % 2
        result == Slice(UnpackBytes(binary_data), offset, offset + length)
    IN IF ~BinaryExists(bytes) THEN Raise("FileNotFoundError")
       ELSE IF start < 0 THEN Raise("ValueError")
       ELSE IF length < 1 THEN Raise("ValueError")
       ELSE IF binary_data = <<>> THEN Raise("StorageError")
       ELSE IF Len(result) # length THEN Raise("StorageError")
       ELSE Ok(result)

----------------------------------------------------------------------------
(* Canonical Source: FileSource *)

\* the "+ 10" of buffer_size in _get_cleaned_digits_from_file
ReadBuffer == 10

\* FileSource.get(start, length): raw characters from offset start
FileGet(f, start, length) ==
    LET content == Slice(f, start, start + length)
    IN IF start < 0 THEN Raise("ValueError")
       ELSE IF length < 1 THEN Raise("ValueError")
       ELSE IF content = <<>> /\ start = 0 THEN Raise("StorageError")
       ELSE Ok(content)

\* FileSource.get_file_size(): os.path.getsize of the raw file
FileSize(f) == Len(f)

----------------------------------------------------------------------------
(* Cache Manager: MathConstantManager *)

\* MathConstantManager._get_cleaned_digits_from_file(start, length)
GetCleanedDigitsFromFile(f, start, length) ==
    LET raw_content == FileGet(f, start, length + ReadBuffer)
    IN IF ~IsOk(raw_content) THEN raw_content
       ELSE Ok(Take(Clean(raw_content.value), length))

\* has_sqlite_cache() and has_binary_cache()
HasSqliteCache(rows) == SQLiteHasData(rows)
HasBinaryCache(bytes) == BinaryExists(bytes) /\ Len(bytes) > 0

\* should_verify of get_digits, count being the counter after its increment
ShouldVerify(count, force_verify) ==
    force_verify \/ count % VerifyEvery = 0

\* an inner try block that cross-checks on the sampled calls only and ignores
\* force_verify
InnerTrySampledOnly(f, rows, bytes, count, start, length, force_verify) ==
    LET result == SQLiteGet(rows, start, length)
        file_result == GetCleanedDigitsFromFile(f, start, length)
        binary_result == BinaryGet(bytes, start, length)
        ret(path) == [exc |-> "none", value |-> result.value, path |-> path]
        exc(e, path) == [exc |-> e, value |-> <<>>, path |-> path]
    IN IF ~IsOk(result) THEN exc(result.error, <<"sqlite">>)
       ELSE IF ~ShouldVerify(count, FALSE) THEN ret(<<"sqlite">>)
       ELSE IF ~IsOk(file_result) THEN exc(file_result.error, <<"sqlite", "file">>)
       ELSE IF result.value # file_result.value
            THEN exc("CorruptionError", <<"sqlite", "file">>)
       ELSE IF ~HasBinaryCache(bytes) THEN ret(<<"sqlite", "file">>)
       ELSE IF binary_result.error = "FileNotFoundError"
            THEN ret(<<"sqlite", "file", "binary">>)
       ELSE IF ~IsOk(binary_result)
            THEN exc(binary_result.error, <<"sqlite", "file", "binary">>)
       ELSE IF result.value # binary_result.value
            THEN exc("CorruptionError", <<"sqlite", "file", "binary">>)
       ELSE ret(<<"sqlite", "file", "binary">>)

\* an inner try block that cross-checks on every call, whatever should_verify
InnerTryAlwaysVerify(f, rows, bytes, count, start, length, force_verify) ==
    LET result == SQLiteGet(rows, start, length)
        file_result == GetCleanedDigitsFromFile(f, start, length)
        binary_result == BinaryGet(bytes, start, length)
        ret(path) == [exc |-> "none", value |-> result.value, path |-> path]
        exc(e, path) == [exc |-> e, value |-> <<>>, path |-> path]
    IN IF ~IsOk(result) THEN exc(result.error, <<"sqlite">>)
       ELSE IF ~IsOk(file_result) THEN exc(file_result.error, <<"sqlite", "file">>)
       ELSE IF result.value # file_result.value
            THEN exc("CorruptionError", <<"sqlite", "file">>)
       ELSE IF ~HasBinaryCache(bytes) THEN ret(<<"sqlite", "file">>)
       ELSE IF binary_result.error = "FileNotFoundError"
            THEN ret(<<"sqlite", "file", "binary">>)
       ELSE IF ~IsOk(binary_result)
            THEN exc(binary_result.error, <<"sqlite", "file", "binary">>)
       ELSE IF result.value # binary_result.value
            THEN exc("CorruptionError", <<"sqlite", "file", "binary">>)
       ELSE ret(<<"sqlite", "file", "binary">>)

\* The inner try block of get_digits (lines 72-91): exc = "none" when it
\* returns value, else the exception that leaves the block.
InnerTry(f, rows, bytes, count, start, length, force_verify) ==
    LET result == SQLiteGet(rows, start, length)
        file_result == GetCleanedDigitsFromFile(f, start, length)
        binary_result == BinaryGet(bytes, start, length)
        ret(path) == [exc |-> "none", value |-> result.value, path |-> path]
        exc(e, path) == [exc |-> e, value |-> <<>>, path |-> path]
    IN IF ~IsOk(result) THEN exc(result.error, <<"sqlite">>)
       ELSE IF ~ShouldVerify(count, force_verify) THEN ret(<<"sqlite">>)
       ELSE IF ~IsOk(file_result) THEN exc(file_result.error, <<"sqlite", "file">>)
       ELSE IF result.value # file_result.value
            THEN exc("CorruptionError", <<"sqlite", "file">>)
       ELSE IF ~HasBinaryCache(bytes) THEN ret(<<"sqlite", "file">>)
       ELSE IF binary_result.error = "FileNotFoundError"
            THEN ret(<<"sqlite", "file", "binary">>)
       ELSE IF ~IsOk(binary_result)
            THEN exc(binary_result.error, <<"sqlite", "file", "binary">>)
       ELSE IF result.value # binary_result.value
            THEN exc("CorruptionError", <<"sqlite", "file", "binary">>)
       ELSE ret(<<"sqlite", "file", "binary">>)

\* a get_digits that lets a failure of the Chunk Store reach the caller
GetDigitsNoFallback(f, rows, bytes, count, start, length, force_verify) ==
    LET inner == InnerTry(f, rows, bytes, count, start, length, force_verify)
        file_result == GetCleanedDigitsFromFile(f, start, length)
    IN IF ~HasSqliteCache(rows)
       THEN [res |-> file_result, path |-> <<"file">>, caught |-> <<>>]
       ELSE IF inner.exc = "none"
       THEN [res |-> Ok(inner.value), path |-> inner.path, caught |-> <<>>]
       ELSE [res |-> Raise(inner.exc), path |-> inner.path, caught |-> <<>>]

\* MathConstantManager.get_digits(start, length, force_verify) after the
\* counter is incremented: the outcome for the caller (res), the sources read
\* in order (path) and the exceptions caught on the way (caught).
GetDigits(f, rows, bytes, count, start, length, force_verify) ==
    LET inner == InnerTry(f, rows, bytes, count, start, length, force_verify)
        file_result == GetCleanedDigitsFromFile(f, start, length)
        \* line 97, and line 102 when line 97 raises
        fallback(path, caught) ==
            IF IsOk(file_result)
            THEN [res |-> file_result, path |-> path \o <<"file">>,
                  caught |-> caught]
            ELSE [res |-> file_result, path |-> path \o <<"file", "file">>,
                  caught |-> caught \o <<file_result.error>>]
        \* line 102 alone
        last_resort(path, caught) ==
            [res |-> file_result, path |-> path \o <<"file">>, caught |-> caught]
    IN IF ~HasSqliteCache(rows) THEN fallback(<<>>, <<>>)
       ELSE IF inner.exc = "none"
       THEN [res |-> Ok(inner.value), path |-> inner.path, caught |-> <<>>]
       ELSE IF inner.exc \in {"ValueError", "CorruptionError"}
       THEN fallback(inner.path, <<inner.exc>>)
       ELSE last_resort(inner.path, <<inner.exc>>)

\* the 60 raw characters and the 50 cleaned digits of _verify_integrity
PrefixRead == 60
PrefixDigits == 50

\* the characters of a sequence of digit values
DigitString(ns) == [i \in 1..Len(ns) |-> DigitChars[ns[i] + 1]]

\* MATH_CONSTANTS: the ids of the table (two of its twelve entries)
MathConstantIds == {"e", "pi"}

\* KNOWN_PREFIXES: known_prefix of each entry of MATH_CONSTANTS, 50 digits
KnownPrefixes ==
    [e |-> DigitString(
        <<2, 7, 1, 8, 2, 8, 1, 8, 2, 8, 4, 5, 9, 0, 4, 5, 2, 3, 5, 3,
          6, 0, 2, 8, 7, 4, 7, 1, 3, 5, 2, 6, 6, 2, 4, 9, 7, 7, 5, 7,
          2, 4, 7, 0, 9, 3, 6, 9, 9, 9>>),
     pi |-> DigitString(
        <<3, 1, 4, 1, 5, 9, 2, 6, 5, 3, 5, 8, 9, 7, 9, 3, 2, 3, 8, 4,
          6, 2, 6, 4, 3, 3, 8, 3, 2, 7, 9, 5, 0, 2, 8, 8, 4, 1, 9, 7,
          1, 6, 9, 3, 9, 9, 3, 7, 5, 1>>)]

\* the loop of lines 205-209: the constant whose known prefix is actual_digits
ConstantFound(actual_digits) ==
    IF \E id \in DOMAIN KnownPrefixes : KnownPrefixes[id] = actual_digits
    THEN CHOOSE id \in DOMAIN KnownPrefixes : KnownPrefixes[id] = actual_digits
    ELSE "none"

\* an integrity check that accepts the files of known constants only
VerifyIntegrityKnownOnly(f) ==
    LET raw_content == FileGet(f, 0, PrefixRead)
        actual_digits == Take(Clean(raw_content.value), PrefixDigits)
    IN IF ~IsOk(raw_content) THEN Raise("CorruptionError")
       ELSE IF ConstantFound(actual_digits) = "none" THEN Raise("CorruptionError")
       ELSE Ok(actual_digits)

\* MathConstantManager._verify_integrity() on construction; every exception
\* of the try block, the KeyError of MATH_CONSTANTS[constant_found] included,
\* leaves as CorruptionError
VerifyIntegrity(f) ==
    LET raw_content == FileGet(f, 0, PrefixRead)
        actual_digits == Take(Clean(raw_content.value), PrefixDigits)
        constant_found == ConstantFound(actual_digits)
    IN IF ~IsOk(raw_content) THEN Raise("CorruptionError")
       ELSE IF constant_found # "none" /\ constant_found \notin MathConstantIds
       THEN Raise("CorruptionError")
       ELSE IF ~IsDigitString(actual_digits) THEN Raise("CorruptionError")
       ELSE Ok(actual_digits)

----------------------------------------------------------------------------
(* Multi-Constant Registry: the status that decides whether a build is skipped *)

\* the "- 10" margin of cache_complete in get_constant_status
CompleteMargin == 10

SetMin(S) == CHOOSE x \in S : \A y \in S : x <= y
SetMax(S) == CHOOSE x \in S : \A y \in S : x >= y

\* SQLiteSource.get_coverage_range(): (MIN(start_position), MAX(end_position))
CoverageRange(rows) ==
    IF rows = {} THEN <<0, 0>>
    ELSE <<SetMin({r.start_position : r \in rows}),
           SetMax({r.end_position : r \in rows})>>

\* cached_digits and cache_complete of get_constant_status
CachedDigits(rows) ==
    IF HasSqliteCache(rows) THEN CoverageRange(rows)[2] - CoverageRange(rows)[1]
    ELSE 0

CacheComplete(f, rows) ==
    HasSqliteCache(rows) /\ CachedDigits(rows) >= FileSize(f) - CompleteMargin

----------------------------------------------------------------------------
(* State *)

\* canonical files: the first digits of pi with at most MaxFormat formatting
\* characters, a '.' anywhere and a newline at the end, accepted by the
\* integrity check of the constructor
FilesUpTo(n) ==
    {f \in SeqsOf({"3", "1", "4", "5"} \cup FileFormatting, 1, n) :
        /\ Cardinality({i \in 1..Len(f) : f[i] \in FileFormatting}) <= MaxFormat
        /\ \A i \in 1..Len(f) : f[i] = "\n" => i = Len(f)
        /\ Clean(f) = SubSeq(ConstantDigits, 1, Len(Clean(f)))
        /\ IsOk(VerifyIntegrity(f))}

Files == FilesUpTo(MaxFileLen)

\* no build_cache call yet.  rebuild tells that the last call had
\* force_rebuild=True and followed a build that ran to completion; before then
\* holds the two stores as that call found them.
NoBuild ==
    [pc |-> "idle", chunk_id |-> 0, chunks_total |-> 0, data |-> <<>>,
     done |-> 0, status |-> "none", rebuild |-> FALSE,
     before |-> [chunks |-> {}, binary |-> <<>>]]

\* a registry without available constants, build_all_caches not called
NoRegistry ==
    [available |-> <<>>, pc |-> "idle", index |-> 0, force_rebuild |-> FALSE,
     results |-> <<>>]

\* no background build task added
NoTasks == <<>>

\* search_sequence not called
NoSearch == [pc |-> "idle"]

\* the state after MathConstantManager.__init__ with empty derived stores
Init ==
    /\ file \in Files
    /\ chunk_size \in ChunkSizes
    /\ chunks = {}
    /\ binary = <<>>
    /\ request_count = 0
    /\ build = NoBuild
    /\ last = [op |-> "init"]
    /\ registry = NoRegistry
    /\ tasks = NoTasks
    /\ search = NoSearch

----------------------------------------------------------------------------
(* Operations of the Cache Manager *)

\* the (start, length) pairs tried: in range, and past the end of the file
GetArgs(f) ==
    {a \in (0..FileSize(f)) \X (1..(FileSize(f) + 1)) : a[1] + a[2] <= FileSize(f) + 1}

\* a get_digits that deletes the rows of the range when a source has failed
GetDigitsCallRepairing ==
    \E a \in GetArgs(file), force_verify \in BOOLEAN :
        /\ request_count < MaxRequests
        /\ request_count' = request_count + 1
        /\ LET out == GetDigits(file, chunks, binary, request_count + 1,
                                a[1], a[2], force_verify)
           IN /\ last' = [op |-> "get_digits", start |-> a[1], length |-> a[2],
                          force_verify |-> force_verify, res |-> out.res,
                          path |-> out.path, caught |-> out.caught]
              /\ chunks' = IF out.caught = <<>> THEN chunks
                           ELSE {r \in chunks : r.start_position >= a[1] + a[2]
                                                  \/ r.end_position <= a[1]}
        /\ UNCHANGED <<file, chunk_size, binary, build, registry, tasks, search>>

\* one call of get_digits
GetDigitsCall ==
    \E a \in GetArgs(file), force_verify \in BOOLEAN :
        /\ request_count < MaxRequests
        /\ request_count' = request_count + 1
        /\ LET out == GetDigits(file, chunks, binary, request_count + 1,
                                a[1], a[2], force_verify)
           IN last' = [op |-> "get_digits", start |-> a[1], length |-> a[2],
                       force_verify |-> force_verify, res |-> out.res,
                       path |-> out.path, caught |-> out.caught]
        /\ UNCHANGED <<file, chunk_size, chunks, binary, build, registry, tasks, search>>

\* chunks_total of build_caches
ChunksTotal(f, cs) == (FileSize(f) + cs - 1) \div cs

\* MultiConstantManager.build_cache up to the first chunk: skipped, or the
\* loop of build_caches is entered
BuildCacheStart ==
    \E force_rebuild \in BOOLEAN :
        /\ build.pc = "idle"
        /\ LET called == IF force_rebuild /\ build.status = "success"
                         THEN [NoBuild EXCEPT
                                  !.rebuild = TRUE,
                                  !.before = [chunks |-> chunks,
                                              binary |-> binary]]
                         ELSE NoBuild
           IN IF ~force_rebuild /\ HasSqliteCache(chunks)
                 /\ CacheComplete(file, chunks)
              THEN build' = [called EXCEPT !.status = "skipped"]
              ELSE build' = [called EXCEPT !.pc = "sqlite", !.status = "running",
                                !.chunks_total = ChunksTotal(file, chunk_size)]
        /\ last' = [op |-> "build_cache", force_rebuild |-> force_rebuild]
        /\ UNCHANGED <<file, chunk_size, chunks, binary, request_count, registry, tasks, search>>

\* build_caches lines 164-172: read the chunk from the file, store it in SQLite
BuildStoreSqlite ==
    /\ build.pc = "sqlite"
    /\ LET start_pos == build.chunk_id * chunk_size
           chunk_length == Min(chunk_size, FileSize(file) - start_pos)
           chunk_data == GetCleanedDigitsFromFile(file, start_pos, chunk_length)
       IN /\ chunks' = InsertOrReplace(chunks, build.chunk_id, start_pos,
                                       chunk_data.value)
          /\ build' = [build EXCEPT !.pc = "binary", !.data = chunk_data.value]
    /\ last' = [op |-> "build_caches", step |-> "sqlite"]
    /\ UNCHANGED <<file, chunk_size, binary, request_count, registry, tasks, search>>

\* build_caches lines 173-176: store the chunk in the packed file, report
\* progress, go to the next chunk; an exception ends the build as failed
BuildStoreBinary ==
    /\ build.pc = "binary"
    /\ LET start_pos == build.chunk_id * chunk_size
           stored == BinaryStoreChunk(binary, start_pos, build.data)
       IN IF ~IsOk(stored.res)
          THEN /\ build' = [build EXCEPT !.pc = "idle", !.status = "failed"]
               /\ UNCHANGED binary
          ELSE /\ binary' = stored.bytes
               /\ build' = [build EXCEPT
                     !.pc = IF build.chunk_id + 1 < build.chunks_total
                            THEN "sqlite" ELSE "idle",
                     !.status = IF build.chunk_id + 1 < build.chunks_total
                                THEN "running" ELSE "success",
                     !.chunk_id = build.chunk_id + 1,
                     !.done = build.chunk_id + 1,
                     !.data = <<>>]
    /\ last' = [op |-> "build_caches", step |-> "binary"]
    /\ UNCHANGED <<file, chunk_size, chunks, request_count, registry, tasks, search>>

Next ==
    \/ GetDigitsCall
    \/ BuildCacheStart
    \/ BuildStoreSqlite
    \/ BuildStoreBinary

Spec == Init /\ [][Next]_vars

----------------------------------------------------------------------------
(* Claims about get_digits and build_caches, checked under Spec *)

\* the last step was a get_digits call; its arguments
IsGet == last.op = "get_digits"
InBounds == last.start >= 0 /\ last.length >= 1
            /\ last.start + last.length <= FileSize(file)

\* C1: for start >= 0, length >= 1, start + length <= file_size, in every cache
\* state, get_digits returns exactly `length` characters, each in '0'..'9'.
C1_ExactLengthOfDigits ==
    (IsGet /\ InBounds) =>
        /\ IsOk(last.res)
        /\ Len(last.res.value) = last.length
        /\ \A i \in 1..Len(last.res.value) : IsDigitChar(last.res.value[i])

\* C2: get_digits(start, length) returns cleaned[start : start+length], where
\* cleaned is the raw text without '.', space and newline, for every start
\* that is in range of the cleaned sequence.
C2_AddressedByDigitPosition ==
    (IsGet /\ last.start >= 0 /\ last.length >= 1
           /\ last.start + last.length <= Len(Clean(file))) =>
        /\ IsOk(last.res)
        /\ last.res.value = Slice(Clean(file), last.start, last.start + last.length)

\* C3: get_digits with start + length > file_size ends in an error in every
\* cache state, never in a result.
C3_OutOfBoundsIsAnError ==
    (IsGet /\ last.start >= 0 /\ last.length >= 1
           /\ last.start + last.length > FileSize(file)) =>
        ~IsOk(last.res)

\* the cross-check of a verifying call finds a difference
VerificationMismatch ==
    LET result == SQLiteGet(chunks, last.start, last.length)
        file_result == GetCleanedDigitsFromFile(file, last.start, last.length)
        binary_result == BinaryGet(binary, last.start, last.length)
    IN /\ HasSqliteCache(chunks)
       /\ IsOk(result)
       /\ ShouldVerify(request_count, last.force_verify)
       /\ \/ IsOk(file_result) /\ result.value # file_result.value
          \/ HasBinaryCache(binary) /\ IsOk(binary_result)
             /\ result.value # binary_result.value

\* C4: when the Chunk Store read succeeds, verification is needed and the
\* result differs from the cleaned Canonical Source range (or from the Packed
\* Store result), get_digits raises CorruptionError to the caller.
C4_MismatchRaisesCorruptionError ==
    (IsGet /\ VerificationMismatch) => last.res.error = "CorruptionError"

\* some position of [start, start + length) lies in no persisted chunk
CoverageHole(rows, start, length) ==
    \E p \in start..(start + length - 1) :
        \A r \in rows : ~(r.start_position <= p /\ p < r.end_position)

\* a non-verifying, in-bounds call the Chunk Store cannot serve
StructuralMiss ==
    /\ IsGet /\ InBounds
    /\ ~ShouldVerify(request_count, last.force_verify)
    /\ CoverageHole(chunks, last.start, last.length)

\* C6: a non-verifying get_digits over an in-bounds range that the Chunk Store
\* cannot serve (no chunk, a gap, a partial build) returns the digits of the
\* Canonical Source for the range and no error; the call after it reads the
\* Chunk Store first again, and returns its result when it can serve the range.
C6_StructuralMissFallsBack ==
    /\ [](StructuralMiss =>
            /\ IsOk(last.res)
            /\ last.res = GetCleanedDigitsFromFile(file, last.start, last.length)
            /\ last.path[Len(last.path)] = "file")
    /\ [][(StructuralMiss /\ last'.op = "get_digits"
              /\ request_count' = request_count + 1 /\ HasSqliteCache(chunks'))
          => /\ last'.path[1] = "sqlite"
             /\ (IsOk(SQLiteGet(chunks', last'.start, last'.length))
                 /\ ~ShouldVerify(request_count', last'.force_verify))
                => /\ last'.res = SQLiteGet(chunks', last'.start, last'.length)
                   /\ last'.path = <<"sqlite">>]_vars

\* a partially built cache failed to serve a call, which fell back to the file
C6_Witness ==
    /\ StructuralMiss
    /\ HasSqliteCache(chunks)
    /\ last.caught = <<"ValueError">>
    /\ last.path = <<"sqlite", "file">>

\* the ranges inside the file
FileRanges(f) ==
    {a \in (0..FileSize(f)) \X (1..FileSize(f)) : a[1] + a[2] <= FileSize(f)}

\* C7: after a complete build_caches run, for every range inside the file,
\* SQLiteSource.get and BinarySource.get both equal the cleaned slice of the
\* Canonical Source for the range.
C7_StoresEqualCanonicalAfterBuild ==
    (build.pc = "idle" /\ build.status = "success") =>
        \A a \in FileRanges(file) :
            LET cleaned == GetCleanedDigitsFromFile(file, a[1], a[2])
            IN /\ SQLiteGet(chunks, a[1], a[2]) = cleaned
               /\ BinaryGet(binary, a[1], a[2]) = cleaned

----------------------------------------------------------------------------
(* The Chunk Store on its own: direct store_chunk and get calls *)

\* damage at rest: one digit of a persisted chunk is overwritten, the stored
\* checksum is left as it was
Tampered(r) == Md5(r.digits) # r.checksum

CorruptChunk ==
    \E r \in chunks :
        \E i \in 1..Len(r.digits) :
            \E d \in Digits \ {r.digits[i]} :
                /\ Cardinality({x \in chunks \ {r} : Tampered(x)}) < MaxTampered
                /\ chunks' = (chunks \ {r}) \cup {[r EXCEPT !.digits[i] = d]}
                /\ last' = [op |-> "corrupt", chunk_id |-> r.chunk_id]
                /\ UNCHANGED <<file, chunk_size, binary, request_count, build, registry, tasks, search>>

\* SQLiteSource.store_chunk(chunk_id, start_pos, digits)
StoreChunkCall ==
    \E chunk_id \in ChunkIds, start_pos \in 0..MaxStart,
       digits \in SeqsOf(Digits, 0, MaxDigits) :
        /\ chunks' = InsertOrReplace(chunks, chunk_id, start_pos, digits)
        /\ last' = [op |-> "store_chunk", chunk_id |-> chunk_id,
                    start_pos |-> start_pos, digits |-> digits,
                    replaced |-> \E r \in chunks : r.chunk_id = chunk_id]
        /\ UNCHANGED <<file, chunk_size, binary, request_count, build, registry, tasks, search>>

\* SQLiteSource.get(start, length)
SQLiteGetCall ==
    \E start \in 0..(MaxStart + MaxDigits), length \in 1..(MaxStart + MaxDigits + 1) :
        /\ last' = [op |-> "sqlite_get", start |-> start, length |-> length,
                    res |-> SQLiteGet(chunks, start, length)]
        /\ UNCHANGED <<file, chunk_size, chunks, binary, request_count, build, registry, tasks, search>>

\* a manager over the file "31" whose Chunk Store is written directly
InitStore ==
    /\ file = <<"3", "1">>
    /\ chunk_size = 2
    /\ chunks = {}
    /\ binary = <<>>
    /\ request_count = 0
    /\ build = NoBuild
    /\ last = [op |-> "init"]
    /\ registry = NoRegistry
    /\ tasks = NoTasks
    /\ search = NoSearch

NextStore ==
    \/ StoreChunkCall
    \/ SQLiteGetCall

SpecStore == InitStore /\ [][NextStore]_vars

NextStoreTamper ==
    \/ StoreChunkCall
    \/ CorruptChunk
    \/ SQLiteGetCall

SpecStoreTamper == InitStore /\ [][NextStoreTamper]_vars

\* the Cache Manager over files of digits, with damage at rest
InitTamper == Init /\ Clean(file) = file /\ chunk_size = 2

NextTamper ==
    \/ GetDigitsCall
    \/ BuildCacheStart
    \/ BuildStoreSqlite
    \/ BuildStoreBinary
    \/ CorruptChunk

SpecTamper == InitTamper /\ [][NextTamper]_vars

----------------------------------------------------------------------------
(* Claims about damaged chunks and about the Chunk Store *)

\* row r holds a position of [start, start + length)
Intersects(r, start, length) ==
    \E p \in start..(start + length - 1) :
        r.start_position <= p /\ p < r.end_position

\* C5: after a persisted chunk's digits are overwritten without updating its
\* checksum, get_digits(start, length, force_verify=True) over a range that
\* intersects the chunk raises CorruptionError.
C5_TamperedChunkRaises ==
    (IsGet /\ last.force_verify
           /\ \E r \in chunks : Tampered(r) /\ Intersects(r, last.start, last.length))
        => last.res.error = "CorruptionError"

\* C8: for any set of persisted chunks, SQLiteSource.get over a range with a
\* position that no persisted chunk covers raises an error.
C8_CoverageHoleIsAnError ==
    (last.op = "sqlite_get" /\ CoverageHole(chunks, last.start, last.length))
        => ~IsOk(last.res)

\* C9: SQLiteSource.get raises CorruptionError exactly when some persisted
\* chunk that intersects the requested range does not match its stored
\* checksum, wherever that chunk stands among the intersecting chunks; a
\* damaged chunk outside the range does not fail the read.
C9_EveryIntersectingChunkVerified ==
    last.op = "sqlite_get" =>
        (last.res.error = "CorruptionError"
            <=> \E r \in chunks : Tampered(r) /\ Intersects(r, last.start, last.length))

\* a read over two chunks of which the first is sound and the second damaged
C9_Witness ==
    /\ last.op = "sqlite_get"
    /\ last.res.error = "CorruptionError"
    /\ \E a, b \in chunks :
          /\ a.start_position < b.start_position
          /\ Intersects(a, last.start, last.length)
          /\ Intersects(b, last.start, last.length)
          /\ ~Tampered(a) /\ Tampered(b)

\* the invariants of a persisted chunk, one row per chunk id
ChunkRowsValid ==
    /\ \A r \in chunks :
          /\ r.end_position - r.start_position = Len(r.digits)
          /\ r.checksum = Md5(r.digits)
    /\ \A a, b \in chunks : a.chunk_id = b.chunk_id => a = b

\* C10: after any sequence of store_chunk calls every persisted chunk has
\* end_position - start_position = len(digits) and checksum = hash(digits),
\* there is at most one row per chunk id, and store_chunk of an id replaces
\* that id's row by the new start, digits and checksum and changes no other row.
C10_StoreChunkUpserts ==
    /\ []ChunkRowsValid
    /\ [][last'.op = "store_chunk" =>
            /\ NewRow(last'.chunk_id, last'.start_pos, last'.digits) \in chunks'
            /\ {r \in chunks' : r.chunk_id # last'.chunk_id}
                 = {r \in chunks : r.chunk_id # last'.chunk_id}]_vars

\* a store_chunk that replaced the row of its id, next to another chunk
C10_Witness ==
    /\ last.op = "store_chunk"
    /\ last.replaced
    /\ Cardinality(chunks) > 1
    /\ \E r \in chunks : r.chunk_id = last.chunk_id /\ r.digits = last.digits

----------------------------------------------------------------------------
(* The Packed Store on its own: direct store_chunk and get calls *)

\* the digits of direct packed store_chunk calls
PackedDigitSet == {"0", "7"}

\* the start positions of direct packed store_chunk calls: even and odd
PackedStarts == {0, 1, 2}

\* byte values with a nibble above 9: 0x1A and 0xA3
BadBytes == {26, 163}

BadNibble(b) == b \div 16 > 9 \/ b % 16 > 9

\* BinarySource.store_chunk(start_pos, digits)
BinaryStoreChunkCall ==
    \E start_pos \in PackedStarts,
       digits \in SeqsOf(PackedDigitSet, 0, MaxPackedDigits) :
        LET stored == BinaryStoreChunk(binary, start_pos, digits)
        IN /\ binary' = stored.bytes
           /\ last' = [op |-> "binary_store", start_pos |-> start_pos,
                       digits |-> digits, res |-> stored.res]
           /\ UNCHANGED <<file, chunk_size, chunks, request_count, build, registry, tasks, search>>

\* BinarySource.get(start, length); `after` is the store_chunk call that no
\* write has followed, if there is one
BinaryGetCall ==
    \E start \in 0..(MaxPackedDigits + 2),
       length \in 1..(MaxPackedDigits + 1) :
        /\ last' = [op |-> "binary_get", start |-> start, length |-> length,
                    res |-> BinaryGet(binary, start, length),
                    after |-> IF last.op = "binary_store" THEN last
                              ELSE IF last.op = "binary_get" THEN last.after
                              ELSE [op |-> "none"]]
        /\ UNCHANGED <<file, chunk_size, chunks, binary, request_count, build, registry, tasks, search>>

\* damage at rest: one byte of the packed file is overwritten by a byte with
\* a nibble above 9
CorruptByte ==
    \E k \in 1..Len(binary), v \in BadBytes :
        /\ binary' = [binary EXCEPT ![k] = v]
        /\ last' = [op |-> "corrupt_byte", byte |-> k - 1]
        /\ UNCHANGED <<file, chunk_size, chunks, request_count, build, registry, tasks, search>>

NextPacked ==
    \/ BinaryStoreChunkCall
    \/ BinaryGetCall

SpecPacked == InitStore /\ [][NextPacked]_vars

NextPackedTamper ==
    \/ BinaryStoreChunkCall
    \/ BinaryGetCall
    \/ CorruptByte

SpecPackedTamper == InitStore /\ [][NextPackedTamper]_vars

----------------------------------------------------------------------------
(* Claims about the Packed Store *)

\* a store_chunk at an even start that returned
EvenStore(call) ==
    call.op = "binary_store" /\ IsOk(call.res) /\ call.start_pos % 2 = 0

\* C11: after BinarySource.store_chunk(s, D) with even s and D a digit string,
\* get(s + i, n) = D[i : i+n] for every i >= 0 and n >= 1 with i + n <= len(D),
\* for even and for odd i.
C11_PackedRoundTrip ==
    /\ EvenStore(last) =>
          \A i \in 0..Len(last.digits), n \in 1..Len(last.digits) :
              i + n <= Len(last.digits) =>
                  BinaryGet(binary, last.start_pos + i, n)
                      = Ok(Slice(last.digits, i, i + n))
    /\ (last.op = "binary_get" /\ EvenStore(last.after)
           /\ last.start >= last.after.start_pos
           /\ last.start + last.length
                 <= last.after.start_pos + Len(last.after.digits)) =>
          last.res = Ok(Slice(last.after.digits,
                              last.start - last.after.start_pos,
                              last.start - last.after.start_pos + last.length))

\* a get at an odd offset into a chunk stored at a non-zero even start over
\* older content
C11_Witness ==
    /\ last.op = "binary_get" /\ EvenStore(last.after)
    /\ last.after.start_pos > 0
    /\ Len(last.after.digits) = MaxPackedDigits
    /\ (last.start - last.after.start_pos) % 2 = 1
    /\ last.length = 2
    /\ last.start + last.length <= last.after.start_pos + Len(last.after.digits)
    /\ IsOk(last.res)

\* the bytes BinarySource.get reads for (start, length)
CoveringBytes(bytes, start, length) ==
    {k \in 1..Len(bytes) : k > start \div 2 /\ k <= (start + length + 1) \div 2}

\* C12: BinarySource.get raises an error whenever a byte of the covering byte
\* span has a high or low nibble above 9.
C12_BadNibbleRaises ==
    (last.op = "binary_get"
        /\ \E k \in CoveringBytes(binary, last.start, last.length) :
               BadNibble(binary[k]))
        => ~IsOk(last.res)

----------------------------------------------------------------------------
(* search_sequence *)

RECURSIVE ScanChunk(_, _, _, _, _, _)
\* the inner while loop of search_sequence over one window: positions after it
ScanChunk(chunk, sequence, pos, current_pos, positions, max_results) ==
    IF ~(pos < Len(chunk) - Len(sequence) + 1) THEN positions
    ELSE IF Slice(chunk, pos, pos + Len(sequence)) = sequence
    THEN IF Len(positions) + 1 >= max_results
         THEN Append(positions, current_pos + pos)
         ELSE ScanChunk(chunk, sequence, pos + 1, current_pos,
                        Append(positions, current_pos + pos), max_results)
    ELSE ScanChunk(chunk, sequence, pos + 1, current_pos, positions, max_results)

\* a step to the next window that leaves out the "+ 1"
NextScanPosNoOverlap(current_pos, sequence) ==
    current_pos + SearchChunkSize - Len(sequence)

\* line 133: current_pos += search_chunk_size - len(sequence) + 1
NextScanPos(current_pos, sequence) ==
    current_pos + SearchChunkSize - Len(sequence) + 1

RECURSIVE SearchLoop(_, _, _, _, _, _, _, _)
\* the outer while loop of search_sequence: the outcome and the request
\* counter after the get_digits calls it made
SearchLoop(f, rows, bytes, count, sequence, max_results, current_pos, positions) ==
    LET file_size == FileSize(f)
        remaining == file_size - current_pos
        window == Min(SearchChunkSize, remaining)
        chunk == GetDigits(f, rows, bytes, count + 1, current_pos, window, FALSE).res
    IN IF ~(Len(positions) < max_results /\ current_pos < file_size)
       THEN [res |-> Ok(positions), count |-> count]
       ELSE IF window < Len(sequence)
       THEN [res |-> Ok(positions), count |-> count]
       ELSE IF ~IsOk(chunk)
       THEN [res |-> Raise("StorageError"), count |-> count + 1]
       ELSE SearchLoop(f, rows, bytes, count + 1, sequence, max_results,
                       NextScanPos(current_pos, sequence),
                       ScanChunk(chunk.value, sequence, 0, current_pos,
                                 positions, max_results))

\* MathConstantManager.search_sequence(sequence, max_results, start_from)
SearchSequence(f, rows, bytes, count, sequence, max_results, start_from) ==
    SearchLoop(f, rows, bytes, count, sequence, max_results, start_from, <<>>)

\* the digit sequences searched for
SearchSequences == SeqsOf(Digits, 1, 2)

SearchSequenceCall ==
    \E sequence \in SearchSequences, max_results \in 1..MaxResults,
       start_from \in 0..FileSize(file) :
        /\ request_count < MaxRequests
        /\ LET out == SearchSequence(file, chunks, binary, request_count,
                                     sequence, max_results, start_from)
           IN /\ request_count' = out.count
              /\ last' = [op |-> "search_sequence", sequence |-> sequence,
                          max_results |-> max_results,
                          start_from |-> start_from, res |-> out.res]
        /\ UNCHANGED <<file, chunk_size, chunks, binary, build, registry, tasks, search>>

NextSearch ==
    \/ SearchSequenceCall
    \/ BuildCacheStart
    \/ BuildStoreSqlite
    \/ BuildStoreBinary

SpecSearch == Init /\ [][NextSearch]_vars

\* the positions of the digit stream at which sequence occurs, from start_from on
Occurrences(f, sequence, start_from) ==
    {p \in start_from..(Len(Clean(f)) - Len(sequence)) :
        Slice(Clean(f), p, p + Len(sequence)) = sequence}

RECURSIVE Ascending(_)
Ascending(S) ==
    IF S = {} THEN <<>> ELSE <<SetMin(S)>> \o Ascending(S \ {SetMin(S)})

\* C13: search_sequence returns exactly the first max_results positions
\* p >= start_from, ascending and without duplicates, at which the sequence
\* occurs in the digit stream, occurrences across a window boundary included.
C13_SearchFindsFirstOccurrences ==
    last.op = "search_sequence" =>
        /\ IsOk(last.res)
        /\ last.res.value =
              Take(Ascending(Occurrences(file, last.sequence, last.start_from)),
                   last.max_results)

----------------------------------------------------------------------------
(* build_cache on its own, and over files that end in blank lines *)

NextBuild ==
    \/ BuildCacheStart
    \/ BuildStoreSqlite
    \/ BuildStoreBinary

\* the state after construction, over canonical files of up to two more
\* characters than those of Init
InitBuild ==
    /\ file \in FilesUpTo(MaxFileLen + 2)
    /\ chunk_size \in ChunkSizes
    /\ chunks = {}
    /\ binary = <<>>
    /\ request_count = 0
    /\ build = NoBuild
    /\ last = [op |-> "init"]
    /\ registry = NoRegistry
    /\ tasks = NoTasks
    /\ search = NoSearch

SpecBuild == InitBuild /\ [][NextBuild]_vars

\* canonical files of one or two digits followed by newlines
PaddedFiles ==
    {SubSeq(ConstantDigits, 1, d) \o [i \in 1..k |-> "\n"] :
        d \in 1..2, k \in 0..MaxPadding}

\* chunk sizes for the padded files: several chunks, and one chunk for the file
PaddedChunkSizes == {4, 16}

InitPadded ==
    /\ file \in {f \in PaddedFiles : IsOk(VerifyIntegrity(f))}
    /\ chunk_size \in PaddedChunkSizes
    /\ chunks = {}
    /\ binary = <<>>
    /\ request_count = 0
    /\ build = NoBuild
    /\ last = [op |-> "init"]
    /\ registry = NoRegistry
    /\ tasks = NoTasks
    /\ search = NoSearch

SpecPadded == InitPadded /\ [][NextBuild]_vars

\* C14: after a build that ran to completion, a build_cache call with
\* force_rebuild=False returns status "skipped" and writes nothing to the
\* Chunk Store or the Packed Store, for any canonical file.
C14_SecondBuildIsSkipped ==
    [][(build.pc = "idle" /\ build.status = "success"
          /\ last'.op = "build_cache" /\ ~last'.force_rebuild)
       => (build'.status = "skipped" /\ build'.pc = "idle"
             /\ chunks' = chunks /\ binary' = binary)]_vars

\* C15: after a complete build, build_cache with force_rebuild=True upserts
\* every chunk id 0..chunks_total-1 again, and afterwards the Chunk Store rows,
\* the Packed Store bytes and the result of get_digits for every range are the
\* same as before the rebuild.
C15_RebuildLeavesContentUnchanged ==
    (build.rebuild /\ build.pc = "idle" /\ build.status = "success") =>
        /\ build.done = build.chunks_total
        /\ {r.chunk_id : r \in chunks} = 0..(build.chunks_total - 1)
        /\ chunks = build.before.chunks
        /\ binary = build.before.binary
        /\ \A a \in GetArgs(file), force_verify \in BOOLEAN :
              GetDigits(file, chunks, binary, request_count + 1,
                        a[1], a[2], force_verify).res
                = GetDigits(file, build.before.chunks, build.before.binary,
                            request_count + 1, a[1], a[2], force_verify).res

\* a forced rebuild of two chunks of an odd size, written over the packed
\* bytes they share, has ended
C15_Witness ==
    /\ build.rebuild /\ build.pc = "idle" /\ build.status = "success"
    /\ build.done = 2
    /\ chunk_size % 2 = 1
    /\ Len(binary) > 1

----------------------------------------------------------------------------
(* Claims about reads during a build, argument validation, the fast path and
   the request counter *)

\* C16: at every point of an in-progress or interrupted build, also between
\* the Chunk Store write and the Packed Store write of a chunk, a get_digits
\* call over an in-bounds range, with or without verification, returns without
\* error the digits the Canonical Source gives for the range.
C16_ReadsDuringBuildEqualCanonical ==
    (IsGet /\ InBounds /\ build.status \in {"running", "failed"}) =>
        /\ IsOk(last.res)
        /\ last.res = GetCleanedDigitsFromFile(file, last.start, last.length)

----------------------------------------------------------------------------
(* Multi-Constant Registry: build_all_caches *)

RECURSIVE BuildCachesRun(_, _, _, _, _)
\* MathConstantManager.build_caches from chunk chunk_id to its end, as one
\* call: the two stores after it and whether it raised StorageError
BuildCachesRun(f, cs, rows, bytes, chunk_id) ==
    LET start_pos == chunk_id * cs
        chunk_length == Min(cs, FileSize(f) - start_pos)
        chunk_data == GetCleanedDigitsFromFile(f, start_pos, chunk_length)
        stored_rows == InsertOrReplace(rows, chunk_id, start_pos, chunk_data.value)
        stored == BinaryStoreChunk(bytes, start_pos, chunk_data.value)
    IN IF chunk_id >= ChunksTotal(f, cs)
       THEN [raised |-> FALSE, chunks |-> rows, binary |-> bytes]
       ELSE IF ~IsOk(chunk_data)
       THEN [raised |-> TRUE, chunks |-> rows, binary |-> bytes]
       ELSE IF ~IsOk(stored.res)
       THEN [raised |-> TRUE, chunks |-> stored_rows, binary |-> bytes]
       ELSE BuildCachesRun(f, cs, stored_rows, stored.bytes, chunk_id + 1)

\* a build_cache without the try block around build_caches: the exception of
\* a failed build leaves the call
BuildCacheNoCatch(m, cs, force_rebuild) ==
    LET run == BuildCachesRun(m.file, cs, m.chunks, m.binary, 0)
        built == [m EXCEPT !.chunks = run.chunks, !.binary = run.binary]
    IN IF ~force_rebuild /\ HasSqliteCache(m.chunks)
          /\ CacheComplete(m.file, m.chunks)
       THEN [raised |-> FALSE, status |-> "skipped", manager |-> m]
       ELSE IF run.raised
       THEN [raised |-> TRUE, status |-> "failed", manager |-> built]
       ELSE [raised |-> FALSE, status |-> "success", manager |-> built]

\* MultiConstantManager.build_cache(constant_id, force_rebuild) as one call, m
\* being the manager of the constant: the status of the result record, the
\* manager after the call, and whether an exception leaves the call
BuildCache(m, cs, force_rebuild) ==
    LET run == BuildCachesRun(m.file, cs, m.chunks, m.binary, 0)
        built == [m EXCEPT !.chunks = run.chunks, !.binary = run.binary]
    IN IF ~force_rebuild /\ HasSqliteCache(m.chunks)
          /\ CacheComplete(m.file, m.chunks)
       THEN [raised |-> FALSE, status |-> "skipped", manager |-> m]
       ELSE IF run.raised
       THEN [raised |-> FALSE, status |-> "failed", manager |-> built]
       ELSE [raised |-> FALSE, status |-> "success", manager |-> built]

\* constant ids in the order of MATH_CONSTANTS
ConstantIds == <<"e", "phi", "pi">>

\* the canonical files of the constants of the registry
BulkFiles == {<<"3", "1">>, <<"3", ".", "1">>, <<"3", "1", "\n">>}

\* the lists available_constants can be after discovery: the ids that have a
\* file, in the order of MATH_CONSTANTS, each with its manager
AvailableLists ==
    UNION {
        {[i \in 1..Cardinality(ids) |->
             [constant |-> ConstantIds[SetMin({k \in ids :
                               Cardinality({j \in ids : j <= k}) = i})],
              file |-> files[i], chunks |-> {}, binary |-> <<>>]] :
            files \in [1..Cardinality(ids) -> BulkFiles]} :
        ids \in SUBSET (1..Len(ConstantIds))}

InitBulk ==
    /\ file = <<"3", "1">>
    /\ chunk_size \in ChunkSizes
    /\ chunks = {}
    /\ binary = <<>>
    /\ request_count = 0
    /\ build = NoBuild
    /\ last = [op |-> "init"]
    /\ registry \in {[NoRegistry EXCEPT !.available = a] : a \in AvailableLists}
    /\ tasks = NoTasks
    /\ search = NoSearch

\* build_all_caches(force_rebuild) up to its loop
BuildAllCachesStart ==
    \E force_rebuild \in BOOLEAN :
        /\ registry.pc \in {"idle", "done"}
        /\ registry' = [registry EXCEPT
                            !.pc = IF Len(registry.available) = 0
                                   THEN "done" ELSE "loop",
                            !.index = 1,
                            !.force_rebuild = force_rebuild,
                            !.results = <<>>]
        /\ last' = [op |-> "build_all_caches", force_rebuild |-> force_rebuild]
        /\ UNCHANGED <<file, chunk_size, chunks, binary, request_count, build, tasks, search>>

\* one iteration of the loop of build_all_caches: build_cache of the next
\* available constant, its result appended; after the last one the results
\* are returned
BuildAllCachesNext ==
    /\ registry.pc = "loop"
    /\ LET i == registry.index
           out == BuildCache(registry.available[i], chunk_size,
                             registry.force_rebuild)
       IN IF out.raised
          THEN registry' = [registry EXCEPT !.pc = "raised",
                                            !.available[i] = out.manager]
          ELSE registry' = [registry EXCEPT
                               !.pc = IF i = Len(registry.available)
                                      THEN "done" ELSE "loop",
                               !.index = i + 1,
                               !.available[i] = out.manager,
                               !.results = Append(registry.results,
                                   [constant |-> registry.available[i].constant,
                                    status |-> out.status])]
    /\ last' = [op |-> "build_cache", index |-> registry.index]
    /\ UNCHANGED <<file, chunk_size, chunks, binary, request_count, build, tasks, search>>

NextBulk ==
    \/ BuildAllCachesStart
    \/ BuildAllCachesNext

SpecBulk == InitBulk /\ [][NextBulk]_vars

\* C17: build_all_caches returns exactly one result record per available
\* constant, in the order of the available constants, each with a status of
\* success, skipped or failed; a failed build of one constant (a chunk
\* without digits, which the Packed Store rejects) is recorded as "failed" for
\* it, a build that stored every chunk as "success", and every later constant
\* is still processed.
C17_OneResultPerConstant ==
    /\ registry.pc # "raised"
    /\ registry.pc = "loop" => Len(registry.results) = registry.index - 1
    /\ registry.pc = "done" => Len(registry.results) = Len(registry.available)
    /\ \A i \in 1..Len(registry.results) :
          /\ registry.results[i].constant = registry.available[i].constant
          /\ registry.results[i].status \in {"success", "skipped", "failed"}
          /\ (registry.results[i].status = "success") =>
                /\ {r.chunk_id : r \in registry.available[i].chunks}
                     = 0..(ChunksTotal(registry.available[i].file, chunk_size) - 1)
                /\ \A r \in registry.available[i].chunks : r.digits # <<>>
          /\ (registry.results[i].status = "failed") =>
                \E r \in registry.available[i].chunks : r.digits = <<>>

\* a bulk build returned after the build of its first constant failed and the
\* build of a later one succeeded
C17_Witness ==
    /\ registry.pc = "done"
    /\ Len(registry.results) = Len(ConstantIds)
    /\ registry.results[1].status = "failed"
    /\ registry.results[Len(ConstantIds)].status = "success"

\* the (start, length) pairs get_digits has to reject: a negative start, a
\* length below 1, a range past the end of the file
InvalidArgs(f) ==
    {a \in {-1, 0, FileSize(f)} \X {-1, 0, 1, FileSize(f) + 1} :
        a[1] < 0 \/ a[2] < 1 \/ a[1] + a[2] > FileSize(f)}

\* one call of get_digits with arguments it has to reject
GetDigitsInvalidCall ==
    \E a \in InvalidArgs(file), force_verify \in BOOLEAN :
        /\ request_count < MaxRequests
        /\ request_count' = request_count + 1
        /\ LET out == GetDigits(file, chunks, binary, request_count + 1,
                                a[1], a[2], force_verify)
           IN last' = [op |-> "get_digits", start |-> a[1], length |-> a[2],
                       force_verify |-> force_verify, res |-> out.res,
                       path |-> out.path, caught |-> out.caught]
        /\ UNCHANGED <<file, chunk_size, chunks, binary, build, registry, tasks, search>>

NextArgs ==
    \/ GetDigitsInvalidCall
    \/ BuildCacheStart
    \/ BuildStoreSqlite
    \/ BuildStoreBinary

SpecArgs == Init /\ [][NextArgs]_vars

\* C18: get_digits with a negative start, a non-positive length or a range
\* past the end of the file raises its validation error before a read of the
\* Chunk Store, the Packed Store or the Canonical Source is attempted.
C18_InvalidArgumentsRaiseBeforeIO ==
    (IsGet /\ (last.start < 0 \/ last.length < 1
                  \/ last.start + last.length > FileSize(file))) =>
        /\ ~IsOk(last.res)
        /\ last.path = <<>>

\* the Chunk Store has data and its get returns for the range of the last call
ChunkStoreServed ==
    HasSqliteCache(chunks) /\ IsOk(SQLiteGet(chunks, last.start, last.length))

\* C19: when the Chunk Store has data, its get succeeds and verification is
\* not needed for the call, get_digits returns the Chunk Store result itself
\* and reads neither the Canonical Source nor the Packed Store.
C19_FastPathReadsChunkStoreOnly ==
    (IsGet /\ ChunkStoreServed
           /\ ~ShouldVerify(request_count, last.force_verify)) =>
        /\ last.res = SQLiteGet(chunks, last.start, last.length)
        /\ last.path = <<"sqlite">>
        /\ last.caught = <<>>

\* a fast-path call over a complete cache whose result is not what the
\* Canonical Source read gives for the range
C19_Witness ==
    /\ IsGet /\ ChunkStoreServed
    /\ ~ShouldVerify(request_count, last.force_verify)
    /\ HasBinaryCache(binary)
    /\ build.status = "success"
    /\ last.res # GetCleanedDigitsFromFile(file, last.start, last.length)

\* get_digits calls with the arguments of GetDigitsCall and with those of
\* GetDigitsInvalidCall, and builds
NextCalls ==
    \/ GetDigitsCall
    \/ GetDigitsInvalidCall
    \/ BuildCacheStart
    \/ BuildStoreSqlite
    \/ BuildStoreBinary

\* the state after construction, over the canonical files shorter than the
\* longest ones of Init
InitCalls == Init /\ Len(file) < MaxFileLen

SpecCalls == InitCalls /\ [][NextCalls]_vars

\* the last call read the Chunk Store and then the Canonical Source to compare
CrossChecked == ChunkStoreServed /\ Len(last.path) >= 2 /\ last.path[2] = "file"

\* the counter starts at 0 and every get_digits call adds exactly 1 to it
CounterCounts ==
    /\ [](last.op = "init" => request_count = 0)
    /\ [][last'.op = "get_digits" => request_count' = request_count + 1]_vars
    /\ [][last'.op # "get_digits" => request_count' = request_count]_vars

\* C20: the request counter starts at 0 and grows by exactly 1 on every
\* get_digits call, calls that end in an error or in fallback included; a call
\* cross-checks sources exactly when force_verify is true or the counter after
\* the increment is a multiple of verify_every.
C20_EveryCallIsCountedAndSampled ==
    /\ CounterCounts
    /\ [](IsGet => (CrossChecked <=> ShouldVerify(request_count, last.force_verify)))

\* C20 as amended: the counter starts at 0 and grows by exactly 1 on every
\* get_digits call; a call whose Chunk Store read succeeds cross-checks exactly
\* when force_verify is true or the counter after the increment is a multiple
\* of verify_every; a call that finds no Chunk Store data, or whose Chunk Store
\* read fails, reads the Canonical Source only and cross-checks nothing.
C20_ServedCallsAreSampled ==
    /\ CounterCounts
    /\ []((IsGet /\ ChunkStoreServed) =>
            (CrossChecked <=> ShouldVerify(request_count, last.force_verify)))
    /\ []((IsGet /\ ~ChunkStoreServed) =>
            /\ ~CrossChecked
            /\ \A i \in 1..Len(last.path) :
                  last.path[i] = "file" \/ (i = 1 /\ last.path[i] = "sqlite"))

\* the call numbered verify_every, made without force_verify, cross-checked
\* the Chunk Store with the Canonical Source and the Packed Store
C20_Witness ==
    /\ IsGet /\ ~last.force_verify
    /\ request_count = VerifyEvery
    /\ CrossChecked
    /\ "binary" \in {last.path[i] : i \in 1..Len(last.path)}

----------------------------------------------------------------------------
(* The Packed Store written chunk by chunk, as build_caches writes it *)

\* the highest chunk id: the last chunk of the file
MaxChunkId == 1

\* even values of config.chunk_size
EvenChunkSizes == {2, 4}

\* the digit strings a chunk may hold: chunk_size digits, fewer in the last chunk
ChunkDigits(chunk_id, cs) ==
    SeqsOf(PackedDigitSet, IF chunk_id = MaxChunkId THEN 1 ELSE cs, cs)

\* no chunk written yet; written maps the ids of the chunks stored so far to
\* the digits of their latest store_chunk call
NoneWritten == [op |-> "binary_chunks", written |-> <<>>, ids |-> {}]

InitChunked ==
    /\ file = <<"3", "1">>
    /\ chunk_size \in EvenChunkSizes
    /\ chunks = {}
    /\ binary = <<>>
    /\ request_count = 0
    /\ build = NoBuild
    /\ last = NoneWritten
    /\ registry = NoRegistry
    /\ tasks = NoTasks
    /\ search = NoSearch

\* binary_source.store_chunk(start_pos, chunk_data) of build_caches line 173
\* with start_pos = chunk_id * chunk_size, the chunks taken in any order
ChunkedStoreCall ==
    \E chunk_id \in 0..MaxChunkId :
        \E digits \in ChunkDigits(chunk_id, chunk_size) :
            LET stored == BinaryStoreChunk(binary, chunk_id * chunk_size, digits)
            IN /\ IsOk(stored.res)
               /\ binary' = stored.bytes
               /\ last' = [op |-> "binary_chunks",
                           ids |-> last.ids \cup {chunk_id},
                           written |-> [i \in last.ids \cup {chunk_id} |->
                                           IF i = chunk_id THEN digits
                                           ELSE last.written[i]]]
               /\ UNCHANGED <<file, chunk_size, chunks, request_count, build,
                              registry, tasks, search>>

NextChunked == ChunkedStoreCall

SpecChunked == InitChunked /\ [][NextChunked]_vars

\* C21: when every store_chunk call starts at a multiple of one even
\* chunk_size and every chunk but the last holds chunk_size digits, a call
\* changes no byte that holds digits of another chunk: whatever the order of
\* the writes, every digit of every stored chunk reads back as it was stored.
C21_ChunksShareNoByte ==
    \A id \in last.ids :
        \A i \in 0..(Len(last.written[id]) - 1) :
            \A n \in 1..(Len(last.written[id]) - i) :
                BinaryGet(binary, id * chunk_size + i, n)
                    = Ok(Slice(last.written[id], i, i + n))

\* all chunks stored, the last one with an odd number of digits, the chunk
\* before it ending in a digit other than 0
C21_Witness ==
    /\ last.ids = 0..MaxChunkId
    /\ chunk_size = 4
    /\ Len(last.written[MaxChunkId]) = 3
    /\ last.written[MaxChunkId - 1][4] = "7"
    /\ last.written[MaxChunkId][1] = "7"
    /\ Len(binary) = 2 * MaxChunkId + 2

----------------------------------------------------------------------------
(* Odd starts and the pad nibble of the Packed Store *)

\* C22: store_chunk with an odd start is rejected with an error, or it keeps
\* the digit at position start - 1, which shares its first byte: a digit
\* stored by the call before it is never silently overwritten.
C22_OddStartKeepsNeighbour ==
    [][(/\ last.op = "binary_store" /\ IsOk(last.res)
        /\ last.start_pos % 2 = 0
        /\ last'.op = "binary_store"
        /\ last'.start_pos = last.start_pos + 1)
       => (\/ ~IsOk(last'.res)
           \/ BinaryGet(binary', last.start_pos, 1) = Ok(<<last.digits[1]>>))]_vars

\* the pad nibble of the last store_chunk call is the last nibble of the file
PadIsLastNibble(call) ==
    /\ EvenStore(call)
    /\ Len(call.digits) % 2 = 1
    /\ 2 * Len(binary) = call.start_pos + Len(call.digits) + 1

\* C27: when the last stored chunk has an odd number of digits, a get whose
\* range extends past the last stored digit raises an error; the pad nibble is
\* never returned as a digit.
C27_PadNibbleIsNotADigit ==
    (/\ last.op = "binary_get"
     /\ PadIsLastNibble(last.after)
     /\ last.start + last.length
           > last.after.start_pos + Len(last.after.digits))
        => ~IsOk(last.res)

----------------------------------------------------------------------------
(* The order of the writes and of the progress reports of build_caches *)

\* the row of chunk id as build_caches writes it: start id * chunk_size
RowAt(id) == \E r \in chunks : r.chunk_id = id /\ r.start_position = id * chunk_size

\* where a build stands: the total is the ceiling of file_size / chunk_size,
\* ids are taken in order, the Chunk Store is written before the Packed Store
\* and a build that has ended has reported done = total
BuildInOrder ==
    /\ build.status \in {"running", "success", "failed"} =>
          /\ build.chunks_total = ChunksTotal(file, chunk_size)
          /\ build.done = build.chunk_id
          /\ \A id \in 0..(build.done - 1) : RowAt(id)
    /\ build.pc = "binary" => RowAt(build.chunk_id)
    /\ (build.pc = "idle" /\ build.status \in {"success", "failed"}) =>
          build.done = build.chunks_total

\* progress_callback(id + 1, total) is called after both writes of chunk id
ReportAfterBothWrites ==
    build'.done # build.done =>
        \/ /\ build.pc = "idle"
           /\ build'.done = 0
        \/ /\ build.pc = "binary"
           /\ build'.done = build.done + 1
           /\ build'.done = build.chunk_id + 1
           /\ RowAt(build.chunk_id)
           /\ binary' = BinaryStoreChunk(binary, build.chunk_id * chunk_size,
                                         build.data).bytes

\* C23: build_caches processes exactly chunks_total = ceil(file_size /
\* chunk_size) chunks with ids 0, 1, ..., chunks_total - 1 in ascending order;
\* each chunk is written at start id * chunk_size to the Chunk Store, then to
\* the Packed Store, and only then progress_callback(id + 1, chunks_total) is
\* called, so the callback sees done = 1, 2, ..., chunks_total and the last
\* call has done = total.
C23_ChunksInOrderThenProgress ==
    []BuildInOrder /\ [][ReportAfterBothWrites]_vars

----------------------------------------------------------------------------
(* Background build tasks: POST /admin/build-cache/{constant_id} *)

\* the most build-cache requests made for the constant
MaxTasks == 2

\* build_task as background_tasks.add_task leaves it: not yet run
AddedTask(force_rebuild) ==
    [pc |-> "added", force_rebuild |-> force_rebuild, chunk_id |-> 0,
     chunks_total |-> 0, data |-> <<>>, status |-> "none"]

\* the build_cache endpoint: the task is added and the response is sent; the
\* task then runs on a worker thread of its own
PostBuildCache ==
    \E force_rebuild \in BOOLEAN :
        /\ Len(tasks) < MaxTasks
        /\ tasks' = Append(tasks, AddedTask(force_rebuild))
        /\ last' = [op |-> "post_build_cache", task |-> Len(tasks) + 1]
        /\ UNCHANGED <<file, chunk_size, chunks, binary, request_count, build,
                       registry, search>>

\* build_task reaches multi_storage.build_cache: skipped, or the loop of
\* build_caches is entered
TaskBuildCache(t) ==
    /\ tasks[t].pc = "added"
    /\ IF ~tasks[t].force_rebuild /\ HasSqliteCache(chunks)
          /\ CacheComplete(file, chunks)
       THEN tasks' = [tasks EXCEPT ![t].pc = "ended", ![t].status = "skipped"]
       ELSE tasks' = [tasks EXCEPT ![t].pc = "sqlite", ![t].status = "running",
                         ![t].chunks_total = ChunksTotal(file, chunk_size)]
    /\ last' = [op |-> "build_task", task |-> t, step |-> "build_cache"]
    /\ UNCHANGED <<file, chunk_size, chunks, binary, request_count, build,
                   registry, search>>

\* build_caches lines 164-172 on the thread of task t
TaskStoreSqlite(t) ==
    /\ tasks[t].pc = "sqlite"
    /\ LET start_pos == tasks[t].chunk_id * chunk_size
           chunk_length == Min(chunk_size, FileSize(file) - start_pos)
           chunk_data == GetCleanedDigitsFromFile(file, start_pos, chunk_length)
       IN /\ chunks' = InsertOrReplace(chunks, tasks[t].chunk_id, start_pos,
                                       chunk_data.value)
          /\ tasks' = [tasks EXCEPT ![t].pc = "binary",
                                    ![t].data = chunk_data.value]
    /\ last' = [op |-> "build_task", task |-> t, step |-> "sqlite"]
    /\ UNCHANGED <<file, chunk_size, binary, request_count, build, registry, search>>

\* build_caches lines 173-176 on the thread of task t
TaskStoreBinary(t) ==
    /\ tasks[t].pc = "binary"
    /\ LET start_pos == tasks[t].chunk_id * chunk_size
           stored == BinaryStoreChunk(binary, start_pos, tasks[t].data)
           more == tasks[t].chunk_id + 1 < tasks[t].chunks_total
       IN IF ~IsOk(stored.res)
          THEN /\ tasks' = [tasks EXCEPT ![t].pc = "ended",
                                         ![t].status = "failed"]
               /\ UNCHANGED binary
          ELSE /\ binary' = stored.bytes
               /\ tasks' = [tasks EXCEPT
                     ![t].pc = IF more THEN "sqlite" ELSE "ended",
                     ![t].status = IF more THEN "running" ELSE "success",
                     ![t].chunk_id = tasks[t].chunk_id + 1,
                     ![t].data = <<>>]
    /\ last' = [op |-> "build_task", task |-> t, step |-> "binary"]
    /\ UNCHANGED <<file, chunk_size, chunks, request_count, build, registry, search>>

NextTasks ==
    \/ PostBuildCache
    \/ \E t \in 1..Len(tasks) : TaskBuildCache(t)
    \/ \E t \in 1..Len(tasks) : TaskStoreSqlite(t)
    \/ \E t \in 1..Len(tasks) : TaskStoreBinary(t)

SpecTasks == Init /\ [][NextTasks]_vars

\* the tasks inside the chunk loop of build_caches
InChunkLoop == {t \in 1..Len(tasks) : tasks[t].pc \in {"sqlite", "binary"}}

\* C24: cache builds are serialized per constant: when two build_cache
\* requests for the same constant are started while one is still running, at
\* most one build is inside its chunk loop at any time, so their chunk writes
\* to the Chunk Store and the Packed Store are never interleaved.
C24_BuildsAreSerialized == Cardinality(InChunkLoop) <= 1

----------------------------------------------------------------------------
(* Construction of MathConstantManager *)

\* the longest of the short files tried
MaxShortFile == 2

\* the characters of the files tried: digits, formatting that is cleaned
\* away, and the non-digits "x" and tab, which are not
ShortFileChars == {"3", "1", ".", "\n", "x"}
BadChars == {"x", "\t", "\n", "9"}

\* positions of a long file where a character is replaced: around the 50
\* cleaned digits and the 60 raw characters of the prefix
BadPositions == {1, 50, 51, 52, 60, 61, 62}

\* digits that follow the known prefix in the long files
MoreDigits == DigitString(<<5, 8, 2, 0, 9, 7, 4, 9, 4, 4, 5, 9>>)

\* a file of 62 digits that starts with a known prefix, with a decimal point
\* after its first digit or not, and with one character replaced or not
LongFiles ==
    {IF p = 0 THEN d ELSE [d EXCEPT ![p] = bad] :
        p \in BadPositions \cup {0}, bad \in BadChars,
        d \in UNION {{KnownPrefixes[id] \o MoreDigits,
                      <<KnownPrefixes[id][1], ".">>
                          \o Tail(KnownPrefixes[id]) \o MoreDigits} :
                     id \in DOMAIN KnownPrefixes}}

\* existing readable files: empty, short, long
ConstructFiles ==
    {<<>>} \cup SeqsOf(ShortFileChars, 1, MaxShortFile) \cup LongFiles

\* MathConstantManager.__init__ over an existing file: FileSource.__init__
\* rejects an empty file, then _verify_integrity runs
Construct(f) ==
    IF f = <<>> THEN Raise("StorageError") ELSE VerifyIntegrity(f)

InitConstruct ==
    /\ file \in ConstructFiles
    /\ chunk_size \in ChunkSizes
    /\ chunks = {}
    /\ binary = <<>>
    /\ request_count = 0
    /\ build = NoBuild
    /\ last = [op |-> "none"]
    /\ registry = NoRegistry
    /\ tasks = NoTasks
    /\ search = NoSearch

\* MathConstantManager(config)
ConstructCall ==
    /\ last.op = "none"
    /\ last' = [op |-> "construct", res |-> Construct(file),
                constant_found |->
                    ConstantFound(Take(Clean(Take(file, PrefixRead)),
                                       PrefixDigits))]
    /\ UNCHANGED <<file, chunk_size, chunks, binary, request_count, build,
                   registry, tasks, search>>

NextConstruct == ConstructCall

SpecConstruct == InitConstruct /\ [][NextConstruct]_vars

\* the first 50 characters of the cleaned first 60 raw characters
CleanedPrefix == Take(Clean(Take(file, PrefixRead)), PrefixDigits)

HasNonDigit(s) == \E i \in 1..Len(s) : ~IsDigitChar(s[i])

\* C25: construction over an existing readable file fails with
\* CorruptionError exactly when the first 50 characters of the cleaned prefix
\* contain a non-digit character, whether or not the prefix is a known one.
C25_FailsExactlyOnNonDigit ==
    last.op = "construct" =>
        (last.res.error = "CorruptionError" <=> HasNonDigit(CleanedPrefix))

\* C25 as amended: construction over an existing readable, non-empty file
\* fails with CorruptionError exactly when the first 50 characters of the
\* cleaned prefix are not a non-empty string of digits (no character is left
\* after cleaning, or one of them is not a digit), whether or not the prefix
\* is a known one; no other error leaves the integrity check.
C25_FailsExactlyOnNoDigitString ==
    (last.op = "construct" /\ file # <<>>) =>
        /\ last.res.error = "CorruptionError"
              <=> (CleanedPrefix = <<>> \/ HasNonDigit(CleanedPrefix))
        /\ last.res.error \in {"none", "CorruptionError"}
        /\ IsOk(last.res) => last.res.value = CleanedPrefix

\* a file of more than 50 digits that is accepted although its prefix is no
\* known one
C25_Witness ==
    /\ last.op = "construct"
    /\ IsOk(last.res)
    /\ last.constant_found = "none"
    /\ Len(last.res.value) = PrefixDigits
    /\ \E i \in 1..Len(file) : file[i] = "."

----------------------------------------------------------------------------
(* get_digits against the state of the derived stores *)

\* what the same call returns over empty derived stores
OverEmptyStores ==
    GetDigits(file, {}, <<>>, request_count, last.start, last.length,
              last.force_verify).res

\* C26: for a fixed canonical file and a fixed in-bounds (start, length),
\* get_digits returns the same digits whether the Chunk Store is empty, built
\* up to some chunk or completely built, also for files with a decimal point.
C26_IndependentOfCacheState ==
    (IsGet /\ InBounds /\ last.start + last.length <= FileSize(file)) =>
        last.res = OverEmptyStores

----------------------------------------------------------------------------
(* get_constant_status over files with line breaks between the digits *)

\* a newline repeated n times
Newlines(n) == [i \in 1..n |-> "\n"]

\* canonical files with line breaks after the first digit
GappedFiles == {<<"3">> \o Newlines(n) \o <<"1", "4">> : n \in 0..MaxPadding}

InitGapped ==
    /\ file \in GappedFiles
    /\ chunk_size \in ChunkSizes
    /\ chunks = {}
    /\ binary = <<>>
    /\ request_count = 0
    /\ build = NoBuild
    /\ last = [op |-> "init"]
    /\ registry = NoRegistry
    /\ tasks = NoTasks
    /\ search = NoSearch

\* MultiConstantManager.get_constant_status(constant_id) for the constant of
\* this manager
GetConstantStatus(f, rows) ==
    [file_size |-> FileSize(f),
     cache_exists |-> HasSqliteCache(rows),
     cache_complete |-> CacheComplete(f, rows),
     cached_digits |-> CachedDigits(rows)]

GetConstantStatusCall ==
    /\ last.op # "get_constant_status"
    /\ last' = [op |-> "get_constant_status",
                status |-> GetConstantStatus(file, chunks)]
    /\ UNCHANGED <<file, chunk_size, chunks, binary, request_count, build,
                   registry, tasks, search>>

NextStatus ==
    \/ GetConstantStatusCall
    \/ BuildCacheStart
    \/ BuildStoreSqlite
    \/ BuildStoreBinary

SpecStatus == InitGapped /\ [][NextStatus]_vars

\* the positions of [0, file_size - 10) that no persisted chunk covers
Uncovered ==
    {p \in 0..(FileSize(file) - CompleteMargin - 1) :
        ~\E r \in chunks : r.start_position <= p /\ p < r.end_position}

\* C28: whenever get_constant_status reports cache_complete = true, the
\* persisted chunks cover every position of [0, file_size - 10) without a gap;
\* a cache with a hole inside that span is never reported complete, and its
\* rebuild is never skipped.
C28_CompleteMeansCovered ==
    /\ (last.op = "get_constant_status" /\ last.status.cache_complete)
          => Uncovered = {}
    /\ build.status = "skipped" => Uncovered = {}

----------------------------------------------------------------------------
(* Reads over stores that may be damaged: get_digits and search_sequence *)

\* a manager over a file of digits whose caches are not built, or were built
\* by a build_caches call that ran to completion
InitReads ==
    /\ file \in {f \in Files : Clean(f) = f}
    /\ chunk_size = 2
    /\ \E built \in BOOLEAN :
          LET run == BuildCachesRun(file, chunk_size, {}, <<>>, 0)
          IN /\ chunks = IF built THEN run.chunks ELSE {}
             /\ binary = IF built THEN run.binary ELSE <<>>
    /\ request_count = 0
    /\ build = NoBuild
    /\ last = [op |-> "init"]
    /\ registry = NoRegistry
    /\ tasks = NoTasks
    /\ search = NoSearch

NextReads ==
    \/ GetDigitsCall
    \/ SearchSequenceCall
    \/ CorruptChunk

SpecReads == InitReads /\ [][NextReads]_vars

\* C29: get_digits and search_sequence are read-only on the derived stores:
\* whatever path a call takes (fast path, verification, fallback, error), the
\* persisted chunks with their digits and checksums and the Packed Store bytes
\* are the same after the call; only the request counter changes, and a failed
\* read never repairs or rewrites a chunk.
C29_ReadsLeaveStoresUnchanged ==
    [][last'.op \in {"get_digits", "search_sequence"} =>
          /\ chunks' = chunks
          /\ binary' = binary
          /\ file' = file
          /\ chunk_size' = chunk_size
          /\ build' = build
          /\ request_count' >= request_count]_vars

\* a get_digits that caught the CorruptionError of a damaged chunk and fell
\* back to the file: the damaged chunk is still there
C29_Witness ==
    /\ IsGet
    /\ last.caught # <<>>
    /\ last.caught[1] = "CorruptionError"
    /\ IsOk(last.res)
    /\ \E r \in chunks : Tampered(r) /\ Intersects(r, last.start, last.length)

----------------------------------------------------------------------------
(* search_sequence window by window *)

\* the sequences searched for: empty, shorter than the scan window, as long
\* as it and longer
StepSequences == SeqsOf({"1"}, 0, SearchChunkSize + 1)

\* the positions a search starts from: the first two of the file, its end and
\* one past its end
StepStarts(file_size) == {0, 1, file_size, file_size + 1}

\* search_sequence(sequence, max_results, start_from) up to its loop
SearchStart ==
    \E sequence \in StepSequences, max_results \in {0, 1, MaxResults},
       start_from \in StepStarts(FileSize(file)) :
        /\ search.pc = "idle"
        /\ search' = [pc |-> "loop", sequence |-> sequence,
                      max_results |-> max_results, start_from |-> start_from,
                      current_pos |-> start_from, positions |-> <<>>,
                      windows |-> 0]
        /\ last' = [op |-> "search_start"]
        /\ UNCHANGED <<file, chunk_size, chunks, binary, request_count, build,
                       registry, tasks>>

\* one evaluation of the while condition of line 113 and, when it holds, one
\* pass through the loop body (lines 115-133)
SearchWindow ==
    /\ search.pc = "loop"
    /\ \E file_size \in {FileSize(file)} :
       \E window \in {Min(SearchChunkSize, file_size - search.current_pos)} :
          IF ~(Len(search.positions) < search.max_results
               /\ search.current_pos < file_size)
          THEN /\ search' = [search EXCEPT !.pc = "returned"]
               /\ UNCHANGED request_count
          ELSE IF window < Len(search.sequence)
          THEN /\ search' = [search EXCEPT !.pc = "returned"]
               /\ UNCHANGED request_count
          ELSE \E chunk \in {GetDigits(file, chunks, binary, request_count + 1,
                                       search.current_pos, window, FALSE).res} :
               /\ request_count' = request_count + 1
               /\ search' =
                     IF ~IsOk(chunk)
                     THEN [search EXCEPT !.pc = "raised"]
                     ELSE [search EXCEPT
                             !.current_pos = NextScanPos(search.current_pos,
                                                         search.sequence),
                             !.positions = ScanChunk(chunk.value,
                                                     search.sequence, 0,
                                                     search.current_pos,
                                                     search.positions,
                                                     search.max_results),
                             !.windows = search.windows + 1]
    /\ last' = [op |-> "search_window"]
    /\ UNCHANGED <<file, chunk_size, chunks, binary, build, registry, tasks>>

\* a Cache Manager over any of the files, its two stores empty or as one
\* build_caches call left them
InitSteps ==
    /\ file \in Files
    /\ chunk_size = 2
    /\ \E built \in BOOLEAN :
          LET run == BuildCachesRun(file, chunk_size, {}, <<>>, 0)
          IN /\ chunks = IF built THEN run.chunks ELSE {}
             /\ binary = IF built THEN run.binary ELSE <<>>
    /\ request_count = 0
    /\ build = NoBuild
    /\ last = [op |-> "init"]
    /\ registry = NoRegistry
    /\ tasks = NoTasks
    /\ search = NoSearch

NextSteps ==
    \/ SearchStart
    \/ SearchWindow

\* a call that has started runs on: nothing else holds the thread of the call
SpecSteps == InitSteps /\ [][NextSteps]_vars /\ WF_vars(SearchWindow)

\* a pass through the loop body that stays in the loop moves the scan
\* position forward
ScanPosGrows ==
    (search.pc = "loop" /\ last'.op = "search_window" /\ search'.pc = "loop")
        => search'.current_pos > search.current_pos

\* C30: search_sequence terminates for every input: for any file size, any
\* start_from >= 0, any max_results and any sequence length, the scan position
\* strictly increases on every window iteration until it reaches file_size or
\* the loop breaks, so the call always returns or raises.
C30_SearchTerminates ==
    /\ [][ScanPosGrows]_vars
    /\ (search.pc = "loop") ~> (search.pc \in {"returned", "raised"})

\* a search for a sequence as long as the scan window that returned after
\* more than one window: the position grew by one each time
C30_Witness ==
    /\ search.pc = "returned"
    /\ Len(search.sequence) = SearchChunkSize
    /\ search.windows >= 2
    /\ search.current_pos = search.start_from + search.windows

====
